---------------------------- MODULE Spec2Model ----------------------------
(***************************************************************************)
(* RobustMatcher (src/matcher.h): ratio test, symmetry test and RANSAC     *)
(* verification of feature correspondences between two images.             *)
(*                                                                         *)
(* Four specifications share the variables:                                *)
(*   SpecRatio  one direct call of ratioTest on an arbitrary container     *)
(*   SpecSym    one direct call of symmetryTest on two ratio-filtered      *)
(*              containers                                                 *)
(*   SpecRansac one direct call of ransacTest on an object whose point     *)
(*              buffers hold what earlier calls left                       *)
(*   Spec       one RobustMatcher object, any sequence of setter and       *)
(*              match calls; match is cut into its sequential stages       *)
(* The OpenCV collaborators (detector, extractor, brute-force matcher,     *)
(* findFundamentalMat) are not part of the repository.  The detector and   *)
(* extractor results are inputs; knnMatch is computed on one-dimensional   *)
(* descriptors; the robust estimator returns any inlier mask.  The         *)
(* setters of distance and confidence only parametrise that estimator and  *)
(* are left out, as are the timing printouts.  Indices count from 0 as in  *)
(* the source; sequences count from 1.                                     *)
(***************************************************************************)
EXTENDS Integers, Sequences, FiniteSets, TLC

VARIABLES
    ratio,          \* float ratio, as a rational [num, den]
    refineF,        \* bool refineF
    points1,        \* vector<Point2f> points1 (object member)
    points2,        \* vector<Point2f> points2 (object member)
    pc,             \* position inside the running call
    keypoints1,     \* match: keypoints1
    keypoints2,     \* match: keypoints2
    descriptors1,   \* match: descriptors1 (one number per keypoint)
    descriptors2,   \* match: descriptors2
    matches1,       \* match: matches1 / ratioTest, symmetryTest argument
    matches2,       \* match: matches2 / symmetryTest argument
    removed,        \* match: int removed / ratioTest return value
    symMatches,     \* match: symMatches
    outMatches,     \* ransacTest: outMatches (match: the caller's matches)
    inliers,        \* ransacTest: vector<uchar> inliers
    fundemental,    \* ransacTest: cv::Mat fundemental
    raw1,           \* history: matches1 as knnMatch / the caller gave it
    raw2,           \* history: matches2 as knnMatch / the caller gave it
    outAtEntry,     \* history: the caller's output vector at call entry
    outAtPartition, \* history: outMatches when the inlier loop ended
    robustArgs,     \* history: point vectors given to the RANSAC estimator
    exactArgs,      \* history: point vectors given to the 8-point estimator
    symSwapped      \* SpecSym: output of symmetryTest with the roles swapped

vars == << ratio, refineF, points1, points2, pc, keypoints1, keypoints2,
           descriptors1, descriptors2, matches1, matches2, removed,
           symMatches, outMatches, inliers, fundemental, raw1, raw2,
           outAtEntry, outAtPartition, robustArgs, exactArgs, symSwapped >>

---------------------------------------------------------------------------
(* Bounds                                                                  *)

\* keypoints per image in a match call
MaxKp == 2
\* a match call starts only while at most this many point pairs are buffered
MaxCarry == 1
\* entries of a container handed to symmetryTest directly
MaxEntries == 3
\* entries of a container handed to ratioTest directly
MaxLists == 2
\* largest descriptor distance handed to ratioTest directly
MaxDist == 2

\* neighbours asked from knnMatch
K == 2

\* descriptor values the extractor may return
Descriptors == {0, 1}
\* ratio values: the constructor's 0.65f and values given to setRatio
DefaultRatio == [num |-> 13, den |-> 20]
Ratios == {DefaultRatio, [num |-> 1, den |-> 2], [num |-> 1, den |-> 1]}

---------------------------------------------------------------------------
(* Data                                                                    *)

DMatch(q, t, d) == [queryIdx |-> q, trainIdx |-> t, distance |-> d]

Point2f(x, y) == [x |-> x, y |-> y]

KeyPoint(x, y) == [pt |-> Point2f(x, y)]

SeqsUpTo(S, n) == UNION {[1..k -> S] : k \in 0..n}

Min(a, b) == IF a <= b THEN a ELSE b

Abs(a) == IF a < 0 THEN -a ELSE a

---------------------------------------------------------------------------
(* float arithmetic of the ratio test: distances are non-negative floats, *)
(* the quotient of two floats is a number, +inf (x/0, x > 0) or NaN (0/0). *)

FDiv(a, b) ==
    IF b /= 0 THEN [kind |-> "num", n |-> a, d |-> b]
    ELSE IF a /= 0 THEN [kind |-> "inf", n |-> 1, d |-> 0]
    ELSE [kind |-> "nan", n |-> 0, d |-> 0]

\* q > r for a float quotient q and a finite positive-denominator r
FGreater(q, r) ==
    CASE q.kind = "num" -> q.n * r.den > r.num * q.d
      [] q.kind = "inf" -> TRUE
      [] q.kind = "nan" -> FALSE

\* q <= r
FLessEq(q, r) ==
    CASE q.kind = "num" -> q.n * r.den <= r.num * q.d
      [] q.kind = "inf" -> FALSE
      [] q.kind = "nan" -> FALSE

---------------------------------------------------------------------------
(* ratioTest                                                               *)

\* the loop body's decision for one entry: TRUE when the entry is cleared
RatioClears(entry, r) ==
    IF Len(entry) > 1
    THEN FGreater(FDiv(entry[1].distance, entry[2].distance), r)
    ELSE TRUE

RECURSIVE RatioLoop(_, _, _, _)
RatioLoop(matches, r, i, cnt) ==
    IF i > Len(matches) THEN [matches |-> matches, removed |-> cnt]
    ELSE IF RatioClears(matches[i], r)
         THEN RatioLoop([matches EXCEPT ![i] = << >>], r, i + 1, cnt + 1)
         ELSE RatioLoop(matches, r, i + 1, cnt)

\* ratioTest erasing the discarded entries instead of clearing them
ratioTestErase(matches, r) ==
    [matches |-> SelectSeq(RatioLoop(matches, r, 1, 0).matches,
                           LAMBDA e : e /= << >>),
     removed |-> RatioLoop(matches, r, 1, 0).removed]

ratioTest(matches, r) == RatioLoop(matches, r, 1, 0)

---------------------------------------------------------------------------
(* symmetryTest                                                            *)

\* the symmetry condition with its second comparison left out
SymmetricPairOneSided(e1, e2) ==
    e1[1].queryIdx = e2[1].trainIdx

\* the symmetry condition of one 1->2 entry against one 2->1 entry
SymmetricPair(e1, e2) ==
    /\ e1[1].queryIdx = e2[1].trainIdx
    /\ e2[1].queryIdx = e1[1].trainIdx

\* inner loop: index of the first 2->1 entry from k on that is not deleted
\* and is symmetric to e1; 0 when the scan reaches the end
RECURSIVE InnerScan(_, _, _)
InnerScan(e1, m2, k) ==
    IF k > Len(m2) THEN 0
    ELSE IF Len(m2[k]) < 2 THEN InnerScan(e1, m2, k + 1)
    ELSE IF SymmetricPair(e1, m2[k]) THEN k
    ELSE InnerScan(e1, m2, k + 1)

\* outer loop from entry i on, appending to sym
RECURSIVE OuterScan(_, _, _, _)
OuterScan(m1, m2, i, sym) ==
    IF i > Len(m1) THEN sym
    ELSE IF Len(m1[i]) < 2 THEN OuterScan(m1, m2, i + 1, sym)
    ELSE IF InnerScan(m1[i], m2, 1) /= 0
         THEN OuterScan(m1, m2, i + 1,
                        Append(sym, DMatch(m1[i][1].queryIdx,
                                           m1[i][1].trainIdx,
                                           m1[i][1].distance)))
         ELSE OuterScan(m1, m2, i + 1, sym)

\* the outer loop started one entry late
symmetryTestSkipFirst(m1, m2, sym) == OuterScan(m1, m2, 2, sym)

symmetryTest(m1, m2, sym) == OuterScan(m1, m2, 1, sym)

---------------------------------------------------------------------------
(* Values of the call-local variables while no call is running             *)

NoMat == [method |-> "none", p1 |-> << >>, p2 |-> << >>]
NoArgs == [n |-> 0, p1 |-> << >>, p2 |-> << >>]

LocalsIdle ==
    /\ keypoints1 = << >> /\ keypoints2 = << >>
    /\ descriptors1 = << >> /\ descriptors2 = << >>
    /\ matches1 = << >> /\ matches2 = << >>
    /\ removed = 0
    /\ symMatches = << >> /\ outMatches = << >>
    /\ inliers = << >> /\ fundemental = NoMat
    /\ raw1 = << >> /\ raw2 = << >>
    /\ outAtEntry = << >> /\ outAtPartition = << >>
    /\ robustArgs = NoArgs /\ exactArgs = NoArgs
    /\ symSwapped = << >>

\* RobustMatcher(): ratio(0.65f), refineF(true), empty point buffers
Constructed ==
    /\ ratio = DefaultRatio
    /\ refineF = TRUE
    /\ points1 = << >>
    /\ points2 = << >>

---------------------------------------------------------------------------
(* SpecRatio: ratioTest called on any container of neighbour lists         *)

\* a neighbour list of query q as knnMatch orders it: ascending distance
NeighbourLists(q) ==
    {<< >>}
    \cup {<< DMatch(q, 0, d) >> : d \in 0..MaxDist}
    \cup {<< DMatch(q, 0, dd[1]), DMatch(q, 1, dd[2]) >> :
            dd \in {x \in (0..MaxDist) \X (0..MaxDist) : x[1] <= x[2]}}

\* containers of n entries, entry i the neighbour list of query i - 1
RECURSIVE RatioContainers(_)
RatioContainers(n) ==
    IF n = 0 THEN {<< >>}
    ELSE {Append(m, e) : m \in RatioContainers(n - 1), e \in NeighbourLists(n - 1)}

RatioInputs(maxN) == UNION {RatioContainers(n) : n \in 0..maxN}

InitRatio ==
    /\ ratio \in Ratios
    /\ refineF = TRUE /\ points1 = << >> /\ points2 = << >>
    /\ pc = "ratioTest"
    /\ keypoints1 = << >> /\ keypoints2 = << >>
    /\ descriptors1 = << >> /\ descriptors2 = << >>
    /\ matches1 \in RatioInputs(MaxLists) /\ matches2 = << >>
    /\ removed = 0
    /\ symMatches = << >> /\ outMatches = << >>
    /\ inliers = << >> /\ fundemental = NoMat
    /\ raw1 = matches1 /\ raw2 = << >>
    /\ outAtEntry = << >> /\ outAtPartition = << >>
    /\ robustArgs = NoArgs /\ exactArgs = NoArgs
    /\ symSwapped = << >>

RatioTestCall ==
    /\ pc = "ratioTest"
    /\ matches1' = ratioTest(matches1, ratio).matches
    /\ removed' = ratioTest(matches1, ratio).removed
    /\ pc' = "ratioTest_ret"
    /\ UNCHANGED << ratio, refineF, points1, points2, keypoints1, keypoints2,
                    descriptors1, descriptors2, matches2, symMatches,
                    outMatches, inliers, fundemental, raw1, raw2, outAtEntry,
                    outAtPartition, robustArgs, exactArgs, symSwapped >>

NextRatio == RatioTestCall

SpecRatio == InitRatio /\ [][NextRatio]_vars

---------------------------------------------------------------------------
(* SpecSym: symmetryTest called on any two ratio-filtered containers       *)

\* entry of query q in a container over nTrain train descriptors, after the
\* ratio test: cleared, or the K nearest neighbours with best neighbour t
FilteredLists(q, nTrain) ==
    {<< >>}
    \cup {<< DMatch(q, t, 1), DMatch(q, (t + 1) % nTrain, 2) >> :
            t \in {u \in 0..(nTrain - 1) : nTrain >= K}}

RECURSIVE FilteredContainers(_, _)
FilteredContainers(n, nTrain) ==
    IF n = 0 THEN {<< >>}
    ELSE {Append(m, e) : m \in FilteredContainers(n - 1, nTrain),
                         e \in FilteredLists(n - 1, nTrain)}

InitSym ==
    /\ ratio = DefaultRatio
    /\ refineF = TRUE /\ points1 = << >> /\ points2 = << >>
    /\ pc = "symmetryTest"
    /\ keypoints1 = << >> /\ keypoints2 = << >>
    /\ descriptors1 = << >> /\ descriptors2 = << >>
    /\ \E n \in 0..MaxEntries, m \in 0..MaxEntries :
          /\ matches1 \in FilteredContainers(n, m)
          /\ matches2 \in FilteredContainers(m, n)
    /\ removed = 0
    /\ symMatches = << >> /\ outMatches = << >>
    /\ inliers = << >> /\ fundemental = NoMat
    /\ raw1 = matches1 /\ raw2 = matches2
    /\ outAtEntry = << >> /\ outAtPartition = << >>
    /\ robustArgs = NoArgs /\ exactArgs = NoArgs
    /\ symSwapped = << >>

\* the call on (matches1, matches2), and the call with the images swapped
SymmetryTestCall ==
    /\ pc = "symmetryTest"
    /\ symMatches' = symmetryTest(matches1, matches2, symMatches)
    /\ symSwapped' = symmetryTest(matches2, matches1, symSwapped)
    /\ pc' = "symmetryTest_ret"
    /\ UNCHANGED << ratio, refineF, points1, points2, keypoints1, keypoints2,
                    descriptors1, descriptors2, matches1, matches2, removed,
                    outMatches, inliers, fundemental, raw1, raw2, outAtEntry,
                    outAtPartition, robustArgs, exactArgs >>

NextSym == SymmetryTestCall

SpecSym == InitSym /\ [][NextSym]_vars

---------------------------------------------------------------------------
(* Collaborators of match                                                  *)

\* detector->detect: keypoint k of image img lies at (k, img)
Detect(n, img) == [k \in 1..n |-> KeyPoint(k, img)]

\* L2 distance of one-dimensional descriptors
L2(a, b) == Abs(a - b)

\* number of train descriptors ranked before train index t for descriptor d
\* (ascending distance, the lower index first among equals)
RankOf(d, train, t) ==
    Cardinality({u \in 1..Len(train) :
                    \/ L2(d, train[u]) < L2(d, train[t])
                    \/ L2(d, train[u]) = L2(d, train[t]) /\ u < t})

NthNearest(d, train, r) ==
    CHOOSE t \in 1..Len(train) : RankOf(d, train, t) = r - 1

\* matcher.knnMatch(query, train, matches, k): per query descriptor its
\* (up to) k nearest train descriptors, indices counted from 0
knnMatch(query, train, k) ==
    [q \in 1..Len(query) |->
        [r \in 1..Min(k, Len(train)) |->
            DMatch(q - 1, NthNearest(query[q], train, r) - 1,
                   L2(query[q], train[NthNearest(query[q], train, r)]))]]

\* cv::findFundamentalMat: the matrix is named by the method and the points
FundamentalMat(method, p1, p2) == [method |-> method, p1 |-> p1, p2 |-> p2]

---------------------------------------------------------------------------
(* ransacTest                                                              *)

\* the conversion loop: the matches' keypoint positions pushed onto buf
RECURSIVE ConvertQuery(_, _, _, _)
ConvertQuery(buf, matches, keypoints, i) ==
    IF i > Len(matches) THEN buf
    ELSE ConvertQuery(Append(buf, keypoints[matches[i].queryIdx + 1].pt),
                      matches, keypoints, i + 1)

RECURSIVE ConvertTrain(_, _, _, _)
ConvertTrain(buf, matches, keypoints, i) ==
    IF i > Len(matches) THEN buf
    ELSE ConvertTrain(Append(buf, keypoints[matches[i].trainIdx + 1].pt),
                      matches, keypoints, i + 1)

\* values a read past the end of the matches vector may deliver
GarbageMatches == {DMatch(0, 0, 0), DMatch(MaxKp, MaxKp, 0)}
\* value a read past the end of a keypoint vector may deliver
GarbagePoints == {Point2f(0, 0)}

\* the inlier loop walks inliers and matches in step: TRUE when it
\* dereferences the matches iterator at or past matches.end()
ReadsPastEnd(inl, matches) ==
    \E i \in 1..Len(inl) : inl[i] /= 0 /\ i > Len(matches)

\* the inlier loop from position i on: the possible contents of outMatches
RECURSIVE ExtractLoop(_, _, _, _)
ExtractLoop(inl, matches, i, out) ==
    IF i > Len(inl) THEN {out}
    ELSE IF inl[i] = 0 THEN ExtractLoop(inl, matches, i + 1, out)
    ELSE IF i <= Len(matches)
         THEN ExtractLoop(inl, matches, i + 1, Append(out, matches[i]))
         ELSE UNION {ExtractLoop(inl, matches, i + 1, Append(out, g)) :
                        g \in GarbageMatches}

\* keypoints[idx].pt: the position, or any value when idx is out of range
PointAt(keypoints, idx) ==
    IF idx + 1 \in 1..Len(keypoints) THEN {keypoints[idx + 1].pt}
    ELSE GarbagePoints

\* the refine branch reads keypoints[idx] out of range for some accepted match
RefineReadsPastEnd(out, kp1, kp2) ==
    \E i \in 1..Len(out) :
        \/ out[i].queryIdx + 1 \notin 1..Len(kp1)
        \/ out[i].trainIdx + 1 \notin 1..Len(kp2)

\* the refine branch's loop from position i on, pushing onto b1 and b2
RECURSIVE RefineLoop(_, _, _, _, _, _)
RefineLoop(out, kp1, kp2, i, b1, b2) ==
    IF i > Len(out) THEN {[p1 |-> b1, p2 |-> b2]}
    ELSE UNION {RefineLoop(out, kp1, kp2, i + 1, Append(b1, a), Append(b2, b)) :
                  << a, b >> \in PointAt(kp1, out[i].queryIdx)
                                 \X PointAt(kp2, out[i].trainIdx)}

\* the refine branch without points1.clear() and points2.clear()
RefinePointsNoClear(buf1, buf2, out, kp1, kp2) ==
    RefineLoop(out, kp1, kp2, 1, buf1, buf2)

\* points1.clear(); points2.clear(); then the loop over outMatches
RefinePoints(buf1, buf2, out, kp1, kp2) ==
    RefineLoop(out, kp1, kp2, 1, << >>, << >>)

---------------------------------------------------------------------------
(* Spec: one RobustMatcher object                                          *)

\* what the caller's output vector may hold when match is called
StaleOut == << DMatch(MaxKp - 1, MaxKp - 1, 1) >>
CallerVectors == {<< >>, StaleOut}

Init ==
    /\ Constructed
    /\ pc = "idle"
    /\ LocalsIdle

objVars == << ratio, refineF, points1, points2 >>
histVars == << raw1, raw2, outAtEntry, outAtPartition, robustArgs, exactArgs,
               symSwapped >>

setRatio ==
    /\ pc = "idle"
    /\ \E r \in Ratios : ratio' = r
    /\ UNCHANGED << refineF, points1, points2, pc, keypoints1, keypoints2,
                    descriptors1, descriptors2, matches1, matches2, removed,
                    symMatches, outMatches, inliers, fundemental >>
    /\ UNCHANGED histVars

refineFundamental ==
    /\ pc = "idle"
    /\ \E flag \in BOOLEAN : refineF' = flag
    /\ UNCHANGED << ratio, points1, points2, pc, keypoints1, keypoints2,
                    descriptors1, descriptors2, matches1, matches2, removed,
                    symMatches, outMatches, inliers, fundemental >>
    /\ UNCHANGED histVars

\* match, 1a and 1b: detection and description of both images
MatchDetect ==
    /\ pc = "idle"
    /\ Len(points1) <= MaxCarry
    /\ \E d1 \in SeqsUpTo(Descriptors, MaxKp), d2 \in SeqsUpTo(Descriptors, MaxKp),
          out \in CallerVectors :
          /\ keypoints1' = Detect(Len(d1), 1)
          /\ keypoints2' = Detect(Len(d2), 2)
          /\ descriptors1' = d1
          /\ descriptors2' = d2
          /\ outMatches' = out
          /\ outAtEntry' = out
    /\ pc' = "knn"
    /\ UNCHANGED objVars
    /\ UNCHANGED << matches1, matches2, removed, symMatches, inliers,
                    fundemental, raw1, raw2, outAtPartition, robustArgs,
                    exactArgs, symSwapped >>

\* match, 2: both directions of knnMatch
MatchKnn ==
    /\ pc = "knn"
    /\ matches1' = knnMatch(descriptors1, descriptors2, K)
    /\ matches2' = knnMatch(descriptors2, descriptors1, K)
    /\ raw1' = matches1'
    /\ raw2' = matches2'
    /\ pc' = "ratio1"
    /\ UNCHANGED objVars
    /\ UNCHANGED << keypoints1, keypoints2, descriptors1, descriptors2,
                    removed, symMatches, outMatches, inliers, fundemental,
                    outAtEntry, outAtPartition, robustArgs, exactArgs,
                    symSwapped >>

\* match, 3: removed= ratioTest(matches1)
MatchRatio1 ==
    /\ pc = "ratio1"
    /\ matches1' = ratioTest(matches1, ratio).matches
    /\ removed' = ratioTest(matches1, ratio).removed
    /\ pc' = "ratio2"
    /\ UNCHANGED objVars
    /\ UNCHANGED histVars
    /\ UNCHANGED << keypoints1, keypoints2, descriptors1, descriptors2,
                    matches2, symMatches, outMatches, inliers, fundemental >>

\* match, 3: removed= ratioTest(matches2)
MatchRatio2 ==
    /\ pc = "ratio2"
    /\ matches2' = ratioTest(matches2, ratio).matches
    /\ removed' = ratioTest(matches2, ratio).removed
    /\ pc' = "symmetry"
    /\ UNCHANGED objVars
    /\ UNCHANGED histVars
    /\ UNCHANGED << keypoints1, keypoints2, descriptors1, descriptors2,
                    matches1, symMatches, outMatches, inliers, fundemental >>

\* match, 4: symmetryTest into the fresh local symMatches
MatchSymmetry ==
    /\ pc = "symmetry"
    /\ symMatches' = symmetryTest(matches1, matches2, << >>)
    /\ pc' = "convert"
    /\ UNCHANGED objVars
    /\ UNCHANGED histVars
    /\ UNCHANGED << keypoints1, keypoints2, descriptors1, descriptors2,
                    matches1, matches2, removed, outMatches, inliers,
                    fundemental >>

\* ransacTest: the keypoint conversion loop, pushing onto the members
RansacConvert ==
    /\ pc = "convert"
    /\ points1' = ConvertQuery(points1, symMatches, keypoints1, 1)
    /\ points2' = ConvertTrain(points2, symMatches, keypoints2, 1)
    /\ pc' = "estimate"
    /\ UNCHANGED << ratio, refineF >>
    /\ UNCHANGED histVars
    /\ UNCHANGED << keypoints1, keypoints2, descriptors1, descriptors2,
                    matches1, matches2, removed, symMatches, outMatches,
                    inliers, fundemental >>

\* ransacTest: inliers(points1.size(),0) and findFundamentalMat(CV_FM_RANSAC),
\* which may set any entries of the mask
RansacEstimate ==
    /\ pc = "estimate"
    /\ inliers' \in [1..Len(points1) -> {0, 1}]
    /\ fundemental' = FundamentalMat("RANSAC", points1, points2)
    /\ robustArgs' = [n |-> robustArgs.n + 1, p1 |-> points1, p2 |-> points2]
    /\ pc' = "extract"
    /\ UNCHANGED objVars
    /\ UNCHANGED << keypoints1, keypoints2, descriptors1, descriptors2,
                    matches1, matches2, removed, symMatches, outMatches,
                    raw1, raw2, outAtEntry, outAtPartition, exactArgs,
                    symSwapped >>

\* ransacTest: the inlier loop; a read past matches.end() delivers any
\* DMatch or ends the process
RansacExtract ==
    /\ pc = "extract"
    /\ \/ /\ outMatches' \in ExtractLoop(inliers, symMatches, 1, outMatches)
          /\ outAtPartition' = outMatches'
          /\ pc' = "refine"
       \/ /\ ReadsPastEnd(inliers, symMatches)
          /\ pc' = "crashed"
          /\ UNCHANGED << outMatches, outAtPartition >>
    /\ UNCHANGED objVars
    /\ UNCHANGED << keypoints1, keypoints2, descriptors1, descriptors2,
                    matches1, matches2, removed, symMatches, inliers,
                    fundemental, raw1, raw2, outAtEntry, robustArgs,
                    exactArgs, symSwapped >>

\* ransacTest, refineF set: points rebuilt from outMatches, 8-point estimate
RansacRefine ==
    /\ pc = "refine"
    /\ refineF
    /\ \/ /\ \E b \in RefinePoints(points1, points2, outMatches,
                                   keypoints1, keypoints2) :
                /\ points1' = b.p1
                /\ points2' = b.p2
                /\ fundemental' = FundamentalMat("8POINT", b.p1, b.p2)
                /\ exactArgs' = [n |-> exactArgs.n + 1, p1 |-> b.p1, p2 |-> b.p2]
          /\ pc' = "done"
       \/ /\ RefineReadsPastEnd(outMatches, keypoints1, keypoints2)
          /\ pc' = "crashed"
          /\ UNCHANGED << points1, points2, fundemental, exactArgs >>
    /\ UNCHANGED << ratio, refineF >>
    /\ UNCHANGED << keypoints1, keypoints2, descriptors1, descriptors2,
                    matches1, matches2, removed, symMatches, outMatches,
                    inliers, raw1, raw2, outAtEntry, outAtPartition,
                    robustArgs, symSwapped >>

\* ransacTest, refineF clear: the RANSAC matrix is returned
RansacNoRefine ==
    /\ pc = "refine"
    /\ ~ refineF
    /\ pc' = "done"
    /\ UNCHANGED objVars
    /\ UNCHANGED histVars
    /\ UNCHANGED << keypoints1, keypoints2, descriptors1, descriptors2,
                    matches1, matches2, removed, symMatches, outMatches,
                    inliers, fundemental >>

\* match returns; its locals and the caller's vectors go out of view
MatchReturn ==
    /\ pc = "done"
    /\ pc' = "idle"
    /\ keypoints1' = << >> /\ keypoints2' = << >>
    /\ descriptors1' = << >> /\ descriptors2' = << >>
    /\ matches1' = << >> /\ matches2' = << >>
    /\ removed' = 0
    /\ symMatches' = << >> /\ outMatches' = << >>
    /\ inliers' = << >> /\ fundemental' = NoMat
    /\ raw1' = << >> /\ raw2' = << >>
    /\ outAtEntry' = << >> /\ outAtPartition' = << >>
    /\ robustArgs' = NoArgs /\ exactArgs' = NoArgs
    /\ symSwapped' = << >>
    /\ UNCHANGED objVars

Next ==
    \/ setRatio
    \/ refineFundamental
    \/ MatchDetect
    \/ MatchKnn
    \/ MatchRatio1
    \/ MatchRatio2
    \/ MatchSymmetry
    \/ RansacConvert
    \/ RansacEstimate
    \/ RansacExtract
    \/ RansacRefine
    \/ RansacNoRefine
    \/ MatchReturn

Spec == Init /\ [][Next]_vars

---------------------------------------------------------------------------
(* SpecRansac: one direct call of ransacTest on an object whose point      *)
(* buffers hold what earlier calls left                                    *)

\* correspondences as symmetryTest delivers them over n1 and n2 keypoints:
\* query indices ascending, no train index twice
RECURSIVE MatchSeqsFrom(_, _, _, _)
MatchSeqsFrom(q, n1, n2, m) ==
    IF q >= n1 THEN {m}
    ELSE MatchSeqsFrom(q + 1, n1, n2, m)
         \cup UNION {MatchSeqsFrom(q + 1, n1, n2, Append(m, DMatch(q, t, 1))) :
                        t \in {u \in 0..(n2 - 1) :
                                 \A i \in 1..Len(m) : m[i].trainIdx /= u}}

MatchSeqs(n1, n2) == MatchSeqsFrom(0, n1, n2, << >>)

\* point buffers after an earlier call that left c point pairs
Carried(c, img) == [k \in 1..c |-> Point2f(k, img)]

InitRansac ==
    /\ ratio = DefaultRatio
    /\ refineF \in BOOLEAN
    /\ \E c \in 0..MaxCarry :
          /\ points1 = Carried(c, 1)
          /\ points2 = Carried(c, 2)
    /\ pc = "convert"
    /\ \E n1 \in 0..MaxKp, n2 \in 0..MaxKp :
          /\ keypoints1 = Detect(n1, 1)
          /\ keypoints2 = Detect(n2, 2)
          /\ symMatches \in MatchSeqs(n1, n2)
    /\ descriptors1 = << >> /\ descriptors2 = << >>
    /\ matches1 = << >> /\ matches2 = << >>
    /\ removed = 0
    /\ outMatches \in CallerVectors
    /\ inliers = << >> /\ fundemental = NoMat
    /\ raw1 = << >> /\ raw2 = << >>
    /\ outAtEntry = outMatches /\ outAtPartition = << >>
    /\ robustArgs = NoArgs /\ exactArgs = NoArgs
    /\ symSwapped = << >>

NextRansac ==
    \/ RansacConvert
    \/ RansacEstimate
    \/ RansacExtract
    \/ RansacRefine
    \/ RansacNoRefine

SpecRansac == InitRansac /\ [][NextRansac]_vars

---------------------------------------------------------------------------
(* Claims                                                                  *)

\* number of entries of a container that are not cleared
NonEmpty(m) == Cardinality({i \in 1..Len(m) : m[i] /= << >>})

\* (q, t) is a correspondence of the sequence s
HasPair(s, q, t) == \E k \in 1..Len(s) : s[k].queryIdx = q /\ s[k].trainIdx = t

\* the part of a call in which the robust estimator has been invoked
AfterEstimate == {"extract", "refine", "done", "crashed"}

\* C1: when fewer than 8 correspondences survive the symmetry filter the
\* robust estimator is not invoked and no matrix is produced.
C1_InsufficientNotEstimated ==
    (pc \in AfterEstimate /\ Len(symMatches) < 8)
        => (robustArgs.n = 0 /\ fundemental = NoMat)

\* C2: ratioTest keeps an entry exactly when it has at least 2 neighbours
\* and distance(rank0)/distance(rank1) <= ratio.
C2_KeptIffQuotientLessEq ==
    pc = "ratioTest_ret" =>
        \A i \in 1..Len(raw1) :
            (matches1[i] /= << >>)
                <=> (/\ Len(raw1[i]) >= 2
                     /\ FLessEq(FDiv(raw1[i][1].distance, raw1[i][2].distance),
                                ratio))

\* C3: symmetryTest, started with an empty output, delivers exactly the
\* pairs (i, j) whose 1->2 entry i is kept with best neighbour j and whose
\* 2->1 entry j is kept with best neighbour i, at most one per 1->2 entry,
\* in the scan order of the 1->2 entries.
C3_SymmetricPairsExactly ==
    pc = "symmetryTest_ret" =>
        /\ \A k \in 1..Len(symMatches) :
              /\ symMatches[k].queryIdx \in 0..(Len(matches1) - 1)
              /\ symMatches[k].trainIdx \in 0..(Len(matches2) - 1)
        /\ \A i \in 0..(Len(matches1) - 1) : \A j \in 0..(Len(matches2) - 1) :
              HasPair(symMatches, i, j)
                  <=> (/\ matches1[i + 1] /= << >>
                       /\ matches1[i + 1][1].trainIdx = j
                       /\ matches2[j + 1] /= << >>
                       /\ matches2[j + 1][1].trainIdx = i)
        /\ \A k \in 1..Len(symMatches) : \A l \in 1..Len(symMatches) :
              k < l => symMatches[k].queryIdx < symMatches[l].queryIdx

C3_Witness ==
    /\ pc = "symmetryTest_ret"
    /\ Len(symMatches) >= 2
    /\ NonEmpty(matches1) > Len(symMatches)

\* C8: (i, j) is in the output of symmetryTest(A, B) exactly when (j, i) is
\* in the output of symmetryTest(B, A).
C8_SymmetryCommutes ==
    pc = "symmetryTest_ret" =>
        \A i \in 0..(Len(matches1) - 1) : \A j \in 0..(Len(matches2) - 1) :
            HasPair(symMatches, i, j) <=> HasPair(symSwapped, j, i)

C8_Witness ==
    /\ pc = "symmetryTest_ret"
    /\ Len(symMatches) >= 1
    /\ NonEmpty(matches1) > Len(symMatches)
    /\ NonEmpty(matches2) > Len(symSwapped)

\* C9: ratioTest keeps the number of entries, leaves every entry it does not
\* clear unchanged, and returns the number of empty entries after the call.
C9_RatioFrameAndCount ==
    pc = "ratioTest_ret" =>
        /\ Len(matches1) = Len(raw1)
        /\ \A i \in 1..Len(raw1) : matches1[i] = << >> \/ matches1[i] = raw1[i]
        /\ removed = Cardinality({i \in 1..Len(matches1) : matches1[i] = << >>})
        /\ NonEmpty(matches1) = Len(matches1) - removed
        /\ NonEmpty(matches1) <= Len(raw1)

C9_Witness ==
    /\ pc = "ratioTest_ret"
    /\ \E i \in 1..Len(raw1) : Len(raw1[i]) = 2 /\ matches1[i] = << >>
    /\ \E i \in 1..Len(raw1) : matches1[i] /= << >>

\* the entries of s whose mask entry is set, in order
RECURSIVE MaskedFrom(_, _, _)
MaskedFrom(s, mask, i) ==
    IF i > Len(s) THEN << >>
    ELSE IF i <= Len(mask) /\ mask[i] /= 0
         THEN << s[i] >> \o MaskedFrom(s, mask, i + 1)
         ELSE MaskedFrom(s, mask, i + 1)

\* C4: in every match call the correspondence counts do not grow from stage
\* to stage (the last count being what ransacTest added to the output), and
\* the inlier loop never reads past the end of its input.
C4_StageSizesNonIncreasing ==
    /\ pc \in {"refine", "done", "crashed"} => ~ ReadsPastEnd(inliers, symMatches)
    /\ pc \in {"refine", "done"} =>
          /\ Len(raw1) >= NonEmpty(matches1)
          /\ NonEmpty(matches1) >= Len(symMatches)
          /\ Len(symMatches) >= Len(outMatches) - Len(outAtEntry)

\* C5: the point vectors given to the robust estimator have the length of
\* this call's correspondences and hold, pair by pair, their keypoints'
\* positions.
C5_PointPairsOfThisCall ==
    pc \in AfterEstimate =>
        /\ Len(robustArgs.p1) = Len(robustArgs.p2)
        /\ Len(robustArgs.p1) = Len(symMatches)
        /\ \A i \in 1..Len(symMatches) :
              i <= Len(robustArgs.p1) =>
                  /\ robustArgs.p1[i] = keypoints1[symMatches[i].queryIdx + 1].pt
                  /\ robustArgs.p2[i] = keypoints2[symMatches[i].trainIdx + 1].pt

\* C6: a match call passes to the robust estimator what a newly constructed
\* object passes for the same images, and accepts what that object accepts.
C6_SameAsFreshObject ==
    /\ pc \in AfterEstimate =>
          /\ robustArgs.p1 = ConvertQuery(<< >>, symMatches, keypoints1, 1)
          /\ robustArgs.p2 = ConvertTrain(<< >>, symMatches, keypoints2, 1)
    /\ pc = "done" =>
          outMatches \in {outAtEntry \o MaskedFrom(symMatches, mask, 1) :
                            mask \in [1..Len(symMatches) -> {0, 1}]}

\* C10: after ransacTest the output is exactly the input correspondences
\* whose inlier-mask entry is set, in input order.
C10_OutputIsInlierSubsequence ==
    pc \in {"refine", "done"} =>
        outMatches = MaskedFrom(symMatches, inliers, 1)

\* C7: refinement leaves the output correspondences as the inlier loop left
\* them; with refineF set the returned matrix is the 8-point estimate on
\* the point pairs of exactly those correspondences, with refineF clear it
\* is the RANSAC estimate and the 8-point estimator is not invoked.
C7_RefinementFrame ==
    pc = "done" =>
        /\ outMatches = outAtPartition
        /\ refineF =>
              /\ exactArgs.n = 1
              /\ fundemental = FundamentalMat("8POINT", exactArgs.p1, exactArgs.p2)
              /\ Len(exactArgs.p1) = Len(outMatches)
              /\ Len(exactArgs.p2) = Len(outMatches)
              /\ \A i \in 1..Len(outMatches) :
                    /\ i <= Len(exactArgs.p1)
                       /\ outMatches[i].queryIdx + 1 \in 1..Len(keypoints1)
                          => exactArgs.p1[i] = keypoints1[outMatches[i].queryIdx + 1].pt
                    /\ i <= Len(exactArgs.p2)
                       /\ outMatches[i].trainIdx + 1 \in 1..Len(keypoints2)
                          => exactArgs.p2[i] = keypoints2[outMatches[i].trainIdx + 1].pt
        /\ ~ refineF =>
              /\ exactArgs.n = 0
              /\ robustArgs.n = 1
              /\ fundemental = FundamentalMat("RANSAC", robustArgs.p1, robustArgs.p2)

C7_Witness ==
    /\ pc = "done"
    /\ refineF
    /\ Len(robustArgs.p1) > Len(symMatches)
    /\ \E i \in 1..Len(symMatches) : inliers[i] = 0
    /\ \E i \in 1..Len(symMatches) : inliers[i] /= 0
    /\ Len(exactArgs.p1) = Len(outMatches)
    /\ Len(exactArgs.p1) < Len(robustArgs.p1)

=============================================================================
